---------------------------- MODULE Spec2Model ----------------------------
(***************************************************************************)
(* Snow melt model with a calibration sweep (runoff_ans.py).               *)
(*                                                                         *)
(* The script runs, for every candidate value of one parameter, a          *)
(* PCRaster DynamicModel: initial() once, then dynamic() for the time      *)
(* steps 1..NR_OF_TIME_STEPS, and scores the run by the mean absolute      *)
(* difference between the observed and the modelled discharge at the       *)
(* observation location.                                                   *)
(*                                                                         *)
(* Numbers are fixed-point integers:                                       *)
(*   parameters (melt rate, lapse rate)   in units of 1 / ParamScale       *)
(*   temperatures                         in units of 1 / TempScale  degC  *)
(*   elevations                           in units of 1 / ElevScale  m     *)
(*   water depths (snow, precipitation)   in units of 1 / WaterScale       *)
(*   discharge (water depth * cell area)  in units of 1 / WaterScale       *)
(* so that temperature * meltRate is a water depth without any rounding.   *)
(* The map is one row of NumCells cells, numbered 1..NumCells from left    *)
(* to right.                                                               *)
(***************************************************************************)
EXTENDS Integers, Sequences, FiniteSets, TLC

\* ------------------------------------------------------------------ bounds
\* number of time steps of a run (181 in the script)
NR_OF_TIME_STEPS == 3
\* number of cells of the map
NumCells == 3
\* longest candidate range (the script's ranges hold 19 values)
MaxCandidates == 3

\* ------------------------------------------------------------------ scales
\* decimals kept by numpy.round(x, 4)
Decimals == 4
ParamScale == 10^Decimals
TempScale == 10^2
ElevScale == 10^1
WaterScale == ParamScale * TempScale

\* ------------------------------------------------------- program constants
\* 208.1 m
elevationMeteoStation == 2081
\* 0.005 degC per m
DefaultLapseRate == 50
\* 0.01 per degC per day
DefaultMeltRate == 100

Cells == 1..NumCells
Days == 1..NR_OF_TIME_STEPS

\* ----------------------------------------------------------------- helpers
Abs(x) == IF x < 0 THEN -x ELSE x

\* PCRaster min(a, b) / Python min
Min(a, b) == IF a <= b THEN a ELSE b

RECURSIVE SumFun(_, _)
\* sum of f over the finite set S
SumFun(f, S) ==
  IF S = {} THEN 0
  ELSE LET x == CHOOSE y \in S : TRUE IN f[x] + SumFun(f, S \ {x})

\* num / den rounded to the nearest integer, halves to the even one
\* (numpy.round and numpy.rint), for den > 0
RoundHalfEven(num, den) ==
  LET q == num \div den
      r == num - q * den
  IN  IF 2 * r < den THEN q
      ELSE IF 2 * r > den THEN q + 1
      ELSE IF q % 2 = 0 THEN q ELSE q + 1

\* numpy.round(x, d) of a parameter value x (in units of 1 / ParamScale)
RoundDecimals(x, d) ==
  LET unit == ParamScale \div (10^d) IN RoundHalfEven(x, unit) * unit

\* numpy.round(x, 3): one decimal too few
Round3(x) == RoundDecimals(x, Decimals - 1)

\* numpy.round(x, 4)
Round4(x) == RoundDecimals(x, Decimals)

RECURSIVE ArangeFrom(_, _, _, _)
ArangeFrom(start, stop, step, k) ==
  IF start + k * step >= stop THEN <<>>
  ELSE <<start + k * step>> \o ArangeFrom(start, stop, step, k + 1)

\* numpy.arange(start, stop, step), step > 0
Arange(start, stop, step) == ArangeFrom(start, stop, step, 0)


\* -------------------------------------------------------------- input files
\* Elevation maps (dem.map): every cell lies a whole number of hectometres
\* above or below the meteo station, so that the temperature correction is
\* a whole number of temperature units.
Hectometre == 100 * ElevScale

\* a slope falling to the right, the last cell at station height
DemSlope == [c \in Cells |-> elevationMeteoStation + Hectometre * (NumCells - c)]

\* a valley: cell 2 is the lowest cell, at station height
DemValley == [c \in Cells |-> elevationMeteoStation + Hectometre * Abs(c - 2)]

\* a ridge at cell 2, cell 1 below the station
DemRidge ==
  [c \in Cells |-> IF c = 1 THEN elevationMeteoStation - Hectometre
                   ELSE elevationMeteoStation + Hectometre * (NumCells - c)]

DemMaps == {DemSlope, DemValley, DemRidge}

\* Boolean maps 'out' with exactly one observation cell
OutMaps == {[c \in Cells |-> c = g] : g \in Cells}

\* precip.tss: 10, 0, 0, ...
PrecipOnce == [d \in Days |-> IF d = 1 THEN 10 * WaterScale ELSE 0]

\* precip.tss: 1, -3, 1, -3, ... (negative values are not rejected)
PrecipMixed == [d \in Days |-> IF d % 2 = 1 THEN WaterScale ELSE -3 * WaterScale]

\* precip.tss: 2, 2, 2, ...
PrecipWet == [d \in Days |-> 2 * WaterScale]

\* precip.tss that ends one row early: 2, 2, ...
PrecipCut == [d \in 1..(NR_OF_TIME_STEPS - 1) |-> 2 * WaterScale]

PrecipSeries == {PrecipOnce, PrecipMixed, PrecipWet, PrecipCut}

\* temp.tss: -1, 5, 5, ...
TempThaw == [d \in Days |-> IF d = 1 THEN -TempScale ELSE 5 * TempScale]

\* temp.tss: 0, 0, 0, ...
TempZero == [d \in Days |-> 0]

\* temp.tss: 3, -2, 3, -2, ...
TempAlternating == [d \in Days |-> IF d % 2 = 1 THEN 3 * TempScale ELSE -2 * TempScale]

\* temp.tss without a value for day 2: 3, -, 3, ...
TempGap == [d \in Days \ {2} |-> 3 * TempScale]

TempSeries == {TempThaw, TempZero, TempAlternating, TempGap}

\* observed.tss: 0, 0, 0, ...
ObservedDry == [d \in Days |-> 0]

\* observed.tss: 1.5, 3, 4.5, ...
ObservedRising == [d \in Days |-> 3 * d * (WaterScale \div 2)]

\* observed.tss that ends one row early: 1.5, 3, ...
ObservedCut == [d \in 1..(NR_OF_TIME_STEPS - 1) |-> 3 * d * (WaterScale \div 2)]

ObservedSeries == {ObservedDry, ObservedRising, ObservedCut}

\* cellarea() of the clone map, the same for every cell
CellAreas == {1, 2}

\* Candidate ranges when the melt rate is calibrated:
\* numpy.arange(0.001, 0.02, 0.001) cut to MaxCandidates values, the single
\* value 0.1, a range that starts below zero (no value is rejected) and a
\* range whose stop lies below its start, which is empty.
MeltRateRanges ==
  { Arange(10, 10 + 10 * MaxCandidates, 10),
    Arange(1000, 1001, 1000),
    Arange(-2000, -2000 + 2000 * MaxCandidates, 2000),
    Arange(20, 10, 10) }

\* Candidate ranges when the lapse rate is calibrated:
\* numpy.arange(0.0041, 0.006, 0.0001) cut to MaxCandidates values, the
\* single default value, and a range that starts below zero.
LapseRateRanges ==
  { Arange(41, 41 + MaxCandidates, 1),
    Arange(DefaultLapseRate, DefaultLapseRate + 1, 1),
    Arange(-50, -50 + 50 * MaxCandidates, 50) }

\* ------------------------------------------------------------------- state
VARIABLES
  \* files read by the model
  dem, out, precipTss, tempTss, observedTss, cellArea,
  \* script globals
  calibrate_melt_rate, my_range, my_values, pos, diff, result, plotted,
  \* the lines printed so far
  printed,
  \* position of the script and of the framework
  pc, timeStep,
  \* attributes of myModel
  meltRate, temperatureLapseRate, observationLocation,
  temperatureCorrection, snow, ldd, totPrecip, modelled, diffOut,
  simulation, outflow_diff,
  \* the maps and values of the last dynamic()
  dyn,
  \* bookkeeping of a run: the sum of the reported 'rg' maps, and how often
  \* each index of simulation was assigned
  cumRunoff, writes,
  \* bookkeeping of the sweep: maptotal of the last 'snow' map of each run
  snowTotals

files == <<dem, out, precipTss, tempTss, observedTss, cellArea>>
config == <<calibrate_melt_rate, my_range, my_values>>
params == <<meltRate, temperatureLapseRate>>
fixedMaps == <<observationLocation, temperatureCorrection, ldd, totPrecip>>
runState == <<snow, modelled, diffOut, simulation, outflow_diff, dyn, cumRunoff, writes>>
sweepState == <<pos, diff, result, snowTotals, printed>>
vars == <<files, config, params, fixedMaps, runState, sweepState, plotted, pc, timeStep>>


\* ------------------------------------------------------- PCRaster operations
\* the cells next to c in the one-row map
Neighbours(c) == {n \in Cells : n = c - 1 \/ n = c + 1}

\* a network without pits: every cell points to its lowest neighbour
LddcreateNoPits(d) ==
  [c \in Cells |->
     LET lowest == {n \in Neighbours(c) : \A k \in Neighbours(c) : d[n] <= d[k]}
     IN  CHOOSE n \in lowest : \A k \in lowest : n <= k]

\* lddcreate(dem, 1e31, 1e31, 1e31, 1e31): every cell points to its steepest
\* lower neighbour (the lower-numbered one on a tie); a cell without a lower
\* neighbour is a pit and points to itself.  Every cell of a one-row map is
\* at the edge of the map, where pits are kept.
Lddcreate(d) ==
  [c \in Cells |->
     LET lower == {n \in Neighbours(c) : d[n] < d[c]}
         steepest == {n \in lower : \A k \in lower : d[n] <= d[k]}
     IN  IF lower = {} THEN c
         ELSE CHOOSE n \in steepest : \A k \in steepest : n <= k]

RECURSIVE FlowsInto(_, _, _, _)
\* does water of cell c pass cell x, following at most n downstream steps
FlowsInto(l, c, x, n) ==
  \/ c = x
  \/ n > 0 /\ l[c] # c /\ FlowsInto(l, l[c], x, n - 1)

\* the cell x and the cells upstream of it
Catchment(l, x) == {c \in Cells : FlowsInto(l, c, x, NumCells)}

\* the material of the cell and of the cells that drain straight into it
AccufluxDirect(l, material) ==
  [x \in Cells |-> material[x] + SumFun(material, {u \in Cells : u # x /\ l[u] = x})]

\* accuflux(ldd, material): the material of the cell and of its upstream cells
Accuflux(l, material) == [x \in Cells |-> SumFun(material, Catchment(l, x))]

RECURSIVE MaxOf(_)
MaxOf(S) ==
  LET x == CHOOSE y \in S : TRUE
  IN  IF S = {x} THEN x ELSE LET m == MaxOf(S \ {x}) IN IF x > m THEN x ELSE m

\* getCellValueAtBooleanLocation(location, map): the map maximum over the
\* cells where location is true
GetCellValueAtBooleanLocation(location, map) ==
  MaxOf({map[c] : c \in {k \in Cells : location[k]}})

\* numpy.zeros(n), indexed from 0
Zeros(n) == [k \in 0..(n - 1) |-> 0]

\* the position a Python index k refers to in an array of length n;
\* -1 stands for an IndexError
ResolveIndex(n, k) ==
  IF 0 <= k /\ k < n THEN k
  ELSE IF -n <= k /\ k < 0 THEN k + n
  ELSE -1

RECURSIVE SumAbs(_, _)
\* sum of |a[0]| .. |a[n - 1]|
SumAbs(a, n) == IF n = 0 THEN 0 ELSE Abs(a[n - 1]) + SumAbs(a, n - 1)

RECURSIVE SumPlain(_, _)
SumPlain(a, n) == IF n = 0 THEN 0 ELSE a[n - 1] + SumPlain(a, n - 1)

\* numpy.mean(a): the absolute value forgotten
MeanPlain(a, n) == [num |-> SumPlain(a, n), den |-> n]

\* numpy.mean(numpy.abs(a)) of an array of length n, as a fraction
MeanAbs(a, n) == [num |-> SumAbs(a, n), den |-> n]

\* numpy.rint of a discharge given as a fraction of discharge units
Rint(f) == RoundHalfEven(f.num, f.den * WaterScale)

\* ------------------------------------------------- the maps of one dynamic()
\* divisor that turns elevation * lapse rate into temperature units
CorrectionUnit == (ElevScale * ParamScale) \div TempScale

\* the elevation itself, not the elevation above the meteo station
TemperatureCorrectionAbsolute(d, lapse) ==
  [c \in Cells |-> (d[c] * lapse) \div CorrectionUnit]

\* elevationAboveMeteoStation * self.temperatureLapseRate
TemperatureCorrection(d, lapse) ==
  [c \in Cells |-> ((d[c] - elevationMeteoStation) * lapse) \div CorrectionUnit]

Temperature(temperatureObserved, tempCor) ==
  [c \in Cells |-> temperatureObserved - tempCor[c]]

\* a temperature of exactly 0 counted as freezing
FreezingAtZero(temperature) == [c \in Cells |-> temperature[c] <= 0]

Freezing(temperature) == [c \in Cells |-> temperature[c] < 0]

\* snow on the days that do not freeze
SnowFallInverted(freezing, precipitation) ==
  [c \in Cells |-> IF ~freezing[c] THEN precipitation ELSE 0]

SnowFall(freezing, precipitation) ==
  [c \in Cells |-> IF freezing[c] THEN precipitation ELSE 0]

\* rain on the freezing days
RainFallFrozen(freezing, precipitation) ==
  [c \in Cells |-> IF freezing[c] THEN precipitation ELSE 0]

RainFall(freezing, precipitation) ==
  [c \in Cells |-> IF ~freezing[c] THEN precipitation ELSE 0]

\* potential melt on the freezing days
PotentialMeltFrozen(freezing, temperature, rate) ==
  [c \in Cells |-> IF freezing[c] THEN temperature[c] * rate ELSE 0]

PotentialMelt(freezing, temperature, rate) ==
  [c \in Cells |-> IF ~freezing[c] THEN temperature[c] * rate ELSE 0]

\* melt that is not limited by the snow there is
ActualMeltUnlimited(s, potentialMelt) == [c \in Cells |-> potentialMelt[c]]

\* the larger of snow and potential melt
ActualMeltMax(s, potentialMelt) ==
  [c \in Cells |-> IF s[c] > potentialMelt[c] THEN s[c] ELSE potentialMelt[c]]

ActualMelt(s, potentialMelt) == [c \in Cells |-> Min(s[c], potentialMelt[c])]

\* the runoff without the cell area
MaterialDepth(runoffGenerated, area) == runoffGenerated

\* runoffGenerated * cellarea()
Material(runoffGenerated, area) == [c \in Cells |-> runoffGenerated[c] * area]

\* the time step itself as the index
SimulationIndexOneBased(t) == t

\* the index of simulation assigned in time step t
SimulationIndex(t) == t - 1

\* has the series a value for time step t
Available(series, t) == t \in DOMAIN series

\* dynamic() of time step t on snow map s, up to the sampling of the
\* modelled discharge: every map it computes
RunoffMaps(s, tempCor, l, location, rate, t) ==
  LET precipitation == precipTss[t]
      temperatureObserved == tempTss[t]
      temperature == Temperature(temperatureObserved, tempCor)
      freezing == Freezing(temperature)
      snowFall == SnowFall(freezing, precipitation)
      rainFall == RainFall(freezing, precipitation)
      snow1 == [c \in Cells |-> s[c] + snowFall[c]]
      potentialMelt == PotentialMelt(freezing, temperature, rate)
      actualMelt == ActualMelt(snow1, potentialMelt)
      snow2 == [c \in Cells |-> snow1[c] - actualMelt[c]]
      runoffGenerated == [c \in Cells |-> actualMelt[c] + rainFall[c]]
      discharge == Accuflux(l, Material(runoffGenerated, cellArea))
      runoffAtOutflowPoint == GetCellValueAtBooleanLocation(location, discharge)
  IN  [ timeStep |-> t,
        precipitation |-> precipitation,
        temperature |-> temperature,
        freezing |-> freezing,
        snowFall |-> snowFall,
        rainFall |-> rainFall,
        potentialMelt |-> potentialMelt,
        actualMelt |-> actualMelt,
        snow |-> snow2,
        runoffGenerated |-> runoffGenerated,
        discharge |-> discharge,
        runoffAtOutflowPoint |-> runoffAtOutflowPoint ]

\* the whole dynamic() of time step t: the maps above, the observed
\* discharge and its difference to the modelled one
DynamicMaps(s, tempCor, l, location, rate, t) ==
  LET r == RunoffMaps(s, tempCor, l, location, rate, t)
  IN  r @@ [ observed |-> observedTss[t],
             outflow_diff |-> observedTss[t] - r.runoffAtOutflowPoint ]

\* no dynamic() has run yet
NoMaps == [timeStep |-> 0]


\* ------------------------------------------------------------------ actions
Init ==
  /\ dem \in DemMaps
  /\ out \in OutMaps
  /\ precipTss \in PrecipSeries
  /\ tempTss \in TempSeries
  /\ observedTss \in ObservedSeries
  /\ cellArea \in CellAreas
  /\ calibrate_melt_rate \in BOOLEAN
  /\ my_range \in (IF calibrate_melt_rate THEN MeltRateRanges ELSE LapseRateRanges)
  /\ my_values = (IF calibrate_melt_rate THEN 0 ELSE 1)
  /\ pos = 0
  /\ diff = [num |-> 0, den |-> 1]
  /\ result = <<>>
  /\ printed = <<>>
  /\ plotted = <<>>
  /\ snowTotals = <<>>
  /\ pc = "loop"
  /\ timeStep = 0
  /\ meltRate = 0
  /\ temperatureLapseRate = 0
  /\ observationLocation = [c \in Cells |-> FALSE]
  /\ temperatureCorrection = [c \in Cells |-> 0]
  /\ snow = [c \in Cells |-> 0]
  /\ ldd = [c \in Cells |-> c]
  /\ totPrecip = 0
  /\ modelled = <<>>
  /\ diffOut = <<>>
  /\ simulation = <<>>
  /\ outflow_diff = 0
  /\ dyn = NoMaps
  /\ cumRunoff = [c \in Cells |-> 0]
  /\ writes = <<>>

\* self.meltRate of MyFirstModel(i, cali_on_melt_rate)
ModelMeltRate(i, cali_on_melt_rate) ==
  IF cali_on_melt_rate THEN i ELSE DefaultMeltRate

\* the candidate taken as the lapse rate whatever is calibrated
ModelLapseRateAlways(i, cali_on_melt_rate) == i

\* self.temperatureLapseRate of MyFirstModel(i, cali_on_melt_rate)
ModelLapseRate(i, cali_on_melt_rate) ==
  IF cali_on_melt_rate THEN DefaultLapseRate ELSE i

\* for i in my_range: myModel = MyFirstModel(i, calibrate_melt_rate).  The
\* attributes other than the two parameters are assigned by initial()
\* before anything reads them.
Construct ==
  /\ pc = "loop"
  /\ pos < Len(my_range)
  /\ pos' = pos + 1
  /\ meltRate' = ModelMeltRate(my_range[pos + 1], calibrate_melt_rate)
  /\ temperatureLapseRate' = ModelLapseRate(my_range[pos + 1], calibrate_melt_rate)
  /\ pc' = "initial"
  /\ UNCHANGED <<files, config, fixedMaps, runState, diff, result, snowTotals,
                 printed, plotted, timeStep>>

\* initial(), called once by dynamicModel.run(); snow0 and simulation0 are
\* the snow map and the difference array it leaves
InitialWith(snow0, simulation0) ==
  /\ pc = "initial"
  /\ observationLocation' = out
  /\ temperatureCorrection' = TemperatureCorrection(dem, temperatureLapseRate)
  /\ snow' = snow0
  /\ ldd' = Lddcreate(dem)
  /\ totPrecip' = 0
  /\ modelled' = <<>>
  /\ diffOut' = <<>>
  /\ simulation' = simulation0
  /\ dyn' = NoMaps
  /\ cumRunoff' = [c \in Cells |-> 0]
  /\ writes' = Zeros(NR_OF_TIME_STEPS)
  /\ timeStep' = 0
  /\ pc' = "dynamic"
  /\ UNCHANGED <<files, config, params, sweepState, plotted, outflow_diff>>

\* an initial() that keeps the snow and the differences of the run before
InitialStale ==
  InitialWith(snow, IF pos = 1 THEN Zeros(NR_OF_TIME_STEPS) ELSE simulation)

Initial ==
  InitialWith([c \in Cells |-> 0], Zeros(NR_OF_TIME_STEPS))

\* dynamic(), called by dynamicModel.run() for the time steps 1, 2, ...
\* timeinputscalar raises an error when its series has no value for the time
\* step; nothing catches it, so the script ends there.  afterError is where
\* the script is after such an error.
DynamicWith(afterError) ==
  /\ pc = "dynamic"
  /\ LET t == timeStep + 1
     IN  /\ timeStep' = t
         /\ IF ~Available(precipTss, t) \/ ~Available(tempTss, t)
            THEN /\ pc' = afterError
                 /\ UNCHANGED runState
            ELSE LET r == RunoffMaps(snow, temperatureCorrection, ldd,
                                     observationLocation, meltRate, t)
                 IN  /\ snow' = r.snow
                     /\ modelled' = Append(modelled, r.runoffAtOutflowPoint)
                     /\ cumRunoff' = [c \in Cells |-> cumRunoff[c] + r.runoffGenerated[c]]
                     /\ IF ~Available(observedTss, t)
                        THEN /\ pc' = afterError
                             /\ dyn' = r
                             /\ UNCHANGED <<diffOut, outflow_diff, simulation, writes>>
                        ELSE LET m == DynamicMaps(snow, temperatureCorrection, ldd,
                                                  observationLocation, meltRate, t)
                                 k == ResolveIndex(NR_OF_TIME_STEPS, SimulationIndex(t))
                             IN  /\ diffOut' = Append(diffOut, m.outflow_diff)
                                 /\ outflow_diff' = m.outflow_diff
                                 /\ dyn' = m
                                 /\ IF k = -1
                                    THEN /\ pc' = "error"
                                         /\ UNCHANGED <<simulation, writes>>
                                    ELSE /\ simulation' = [simulation EXCEPT ![k] = m.outflow_diff]
                                         /\ writes' = [writes EXCEPT ![k] = @ + 1]
                                         /\ pc' = IF t = NR_OF_TIME_STEPS
                                                  THEN "aggregate" ELSE "dynamic"
  /\ UNCHANGED <<files, config, params, fixedMaps, sweepState, plotted>>

\* a dynamic() whose forcing error is swallowed: the run counts as finished
DynamicLenient == DynamicWith("aggregate")

Dynamic == DynamicWith("aborted")

\* the objective of the finished run and its record
Aggregate ==
  /\ pc = "aggregate"
  /\ diff' = MeanAbs(simulation, NR_OF_TIME_STEPS)
  /\ result' = Append(result, <<Round4(meltRate), Round4(temperatureLapseRate),
                               Rint(diff')>>)
  /\ printed' = Append(printed, <<Round4(meltRate), Round4(temperatureLapseRate), diff'>>)
  /\ snowTotals' = Append(snowTotals, SumFun(snow, Cells))
  /\ pc' = "loop"
  /\ UNCHANGED <<files, config, params, fixedMaps, runState, pos, plotted, timeStep>>

\* the loop is over: one point per record
Plot ==
  /\ pc = "loop"
  /\ pos = Len(my_range)
  /\ plotted' = [k \in 1..Len(result) |-> <<result[k][my_values + 1], result[k][3]>>]
  /\ pc' = "done"
  /\ UNCHANGED <<files, config, params, fixedMaps, runState, sweepState, timeStep>>

Next == Construct \/ Initial \/ Dynamic \/ Aggregate \/ Plot

Spec == Init /\ [][Next]_vars


\* ------------------------------------------------------------------ claims
\* precipitation of the time steps 1..t
RECURSIVE SumSeries(_, _)
SumSeries(series, t) == IF t = 0 THEN 0 ELSE series[t] + SumSeries(series, t - 1)

\* a dynamic() of the current run has filled dyn
Stepped == dyn.timeStep >= 1

\* C1: the snow storage of every cell is >= 0 after initial() and after every
\* dynamic(), whatever the forcing series and the parameter values.
C1_SnowNonNegative == \A c \in Cells : snow[c] >= 0

\* a freezing day whose negative precipitation exceeded the snow of a cell
C1_Witness ==
  /\ Stepped
  /\ \E c \in Cells :
       dyn.freezing[c] /\ dyn.precipitation < 0 /\ dyn.actualMelt[c] < 0

\* C2: per cell, the precipitation of the days 1..d is the runoff generated
\* on the days 1..d plus the snow storage after day d.
C2_MassConservation ==
  pc # "aborted" =>
    \A c \in Cells : SumSeries(precipTss, timeStep) = cumRunoff[c] + snow[c]

\* the end of a run that has both stored snow and generated runoff
C2_Witness ==
  /\ pc = "aggregate"
  /\ timeStep = NR_OF_TIME_STEPS
  /\ \E c \in Cells : snow[c] > 0 /\ cumRunoff[c] > 0

\* C3: of two runs with the same lapse rate and forcing, the one with the
\* larger melt rate ends with no more snow on the map than the other.
C3_MeltRateMonotone ==
  \A i, j \in 1..Len(snowTotals) :
    LET mi == ModelMeltRate(my_range[i], calibrate_melt_rate)
        mj == ModelMeltRate(my_range[j], calibrate_melt_rate)
        li == ModelLapseRate(my_range[i], calibrate_melt_rate)
        lj == ModelLapseRate(my_range[j], calibrate_melt_rate)
    IN  (li = lj /\ mi <= mj) => snowTotals[j] <= snowTotals[i]

\* two finished runs, the one with the larger melt rate with less snow
C3_Witness ==
  \E i, j \in 1..Len(snowTotals) :
    /\ calibrate_melt_rate
    /\ my_range[i] < my_range[j]
    /\ snowTotals[j] < snowTotals[i]


\* the corrected temperature of cell c in time step t
CorrectedTemperature(c, t) == tempTss[t] - temperatureCorrection[c]

\* the step is a dynamic() that ran to its end
DynamicStep == pc = "dynamic" /\ pc' # "aborted" /\ timeStep' = timeStep + 1

\* what the frozen regime is said to do to cell c in the step
FrozenAsClaimed(c) ==
  /\ snow'[c] = snow[c] + precipTss[timeStep']
  /\ dyn'.rainFall[c] = 0
  /\ dyn'.potentialMelt[c] = 0
  /\ dyn'.actualMelt[c] = 0
  /\ dyn'.runoffGenerated[c] = 0

\* C4 as stated: on a day on which the corrected temperature of a cell is
\* < 0, the whole precipitation is added to its snow storage and rainfall,
\* potential melt, actual melt and runoff are 0.
C4_FrozenRegimeOriginal ==
  [][DynamicStep =>
       \A c \in Cells : CorrectedTemperature(c, timeStep') < 0 => FrozenAsClaimed(c)]_vars

\* C4 as amended: on such a day rainfall and potential melt are 0; when the
\* snow storage plus the precipitation is >= 0 (as it is for any
\* precipitation >= 0) the precipitation is added to the storage and actual
\* melt and runoff are 0; otherwise the storage ends at 0 and actual melt and
\* runoff are the negative sum of storage and precipitation.
C4_FrozenRegime ==
  [][DynamicStep =>
       \A c \in Cells : CorrectedTemperature(c, timeStep') < 0 =>
         IF snow[c] + precipTss[timeStep'] >= 0
         THEN FrozenAsClaimed(c)
         ELSE /\ snow'[c] = 0
              /\ dyn'.rainFall[c] = 0
              /\ dyn'.potentialMelt[c] = 0
              /\ dyn'.actualMelt[c] = snow[c] + precipTss[timeStep']
              /\ dyn'.runoffGenerated[c] = snow[c] + precipTss[timeStep']]_vars

\* a freezing day has added its precipitation to snow that lay there before
C4_Witness ==
  /\ Stepped
  /\ \E c \in Cells :
       /\ dyn.freezing[c]
       /\ dyn.precipitation > 0
       /\ snow[c] > dyn.precipitation
       /\ dyn.runoffGenerated[c] = 0

\* The melting regime: on a day on which the corrected temperature of a cell
\* is >= 0 (exactly 0 too), nothing
\* is added to its snow storage, rainfall is the precipitation, potential
\* melt is corrected temperature * meltRate, actual melt is the smaller of
\* storage and potential melt, the storage falls by the actual melt and the
\* runoff is actual melt + precipitation.
C5_MeltingStep ==
  DynamicStep =>
    \A c \in Cells :
      LET temp == CorrectedTemperature(c, timeStep')
          melt == Min(snow[c], temp * meltRate)
      IN  temp >= 0 =>
            /\ dyn'.snowFall[c] = 0
            /\ dyn'.rainFall[c] = precipTss[timeStep']
            /\ dyn'.potentialMelt[c] = temp * meltRate
            /\ dyn'.actualMelt[c] = melt
            /\ snow'[c] = snow[c] - melt
            /\ dyn'.runoffGenerated[c] = melt + precipTss[timeStep']

\* the single-cell scenario: precipitation 10, 0, 0, temperature -1, 5, 5,
\* melt rate 0.1, in a cell without temperature correction
InScenario(c) ==
  /\ Stepped
  /\ precipTss = PrecipOnce
  /\ tempTss = TempThaw
  /\ meltRate = ParamScale \div 10
  /\ temperatureCorrection[c] = 0

\* snow storage 10, 9.5, 9.0 and runoff 0, 0.5, 0.5
C5_Scenario ==
  \A c \in Cells :
    InScenario(c) =>
      /\ timeStep = 1 => snow[c] = 10 * WaterScale /\ dyn.runoffGenerated[c] = 0
      /\ timeStep = 2 => /\ snow[c] = 19 * (WaterScale \div 2)
                         /\ dyn.runoffGenerated[c] = WaterScale \div 2
      /\ timeStep = 3 => /\ snow[c] = 9 * WaterScale
                         /\ dyn.runoffGenerated[c] = WaterScale \div 2

\* C5: every dynamic() treats the cells at or above 0 degrees as the melting
\* regime says, and the single-cell scenario gives snow storage 10, 9.5, 9.0
\* and runoff 0, 0.5, 0.5.
C5_MeltingRegime == [][C5_MeltingStep]_vars /\ []C5_Scenario

\* the third day of the scenario, and a day with a corrected temperature of
\* exactly 0 that passed its precipitation on as rain
C5_Witness ==
  \E c \in Cells :
    /\ InScenario(c)
    /\ timeStep = 3
    /\ \E k \in Cells :
         dyn.temperature[k] > 0 /\ dyn.actualMelt[k] > 0 /\ dyn.actualMelt[k] < snow[k]

\* a day at exactly 0 degrees with rain
C5_WitnessZero ==
  /\ Stepped
  /\ \E c \in Cells :
       dyn.temperature[c] = 0 /\ dyn.rainFall[c] > 0 /\ dyn.precipitation > 0


\* the cells that drain straight into cell c
Inflows(c) == {u \in Cells : u # c /\ ldd[u] = c}

RECURSIVE UpstreamOf(_, _)
\* S and the cells that reach S in at most n downstream steps
UpstreamOf(S, n) ==
  IF n = 0 THEN S
  ELSE UpstreamOf(S \cup {u \in Cells : ldd[u] \in S}, n - 1)

\* the cell at which 'out' is true
GaugeCell == CHOOSE g \in Cells : observationLocation[g]

\* runoff * area of the day, per cell
OwnContribution == [c \in Cells |-> dyn.runoffGenerated[c] * cellArea]

\* a source that drains into a sink nothing else drains into, both with a
\* runoff of 1.0 and an area of 1
TwoCellNetwork(source, sink) ==
  /\ source # sink
  /\ ldd[source] = sink
  /\ ldd[sink] = sink
  /\ Inflows(source) = {}
  /\ Inflows(sink) = {source}
  /\ cellArea = 1
  /\ dyn.runoffGenerated[source] = WaterScale
  /\ dyn.runoffGenerated[sink] = WaterScale

\* C6: the accumulated discharge of a cell is its runoff times its area plus
\* the accumulated discharge of the cells that drain into it; a headwater
\* cell has its own contribution only; the modelled discharge of the day is
\* the value at the gauge cell, the sum over the gauge cell and the cells
\* upstream of it; in the two-cell network the source has 1.0, the sink 2.0.
C6_FlowAccumulation ==
  Stepped =>
    /\ \A c \in Cells :
         /\ dyn.discharge[c] = OwnContribution[c] + SumFun(dyn.discharge, Inflows(c))
         /\ Inflows(c) = {} => dyn.discharge[c] = OwnContribution[c]
    /\ dyn.runoffAtOutflowPoint = dyn.discharge[GaugeCell]
    /\ dyn.runoffAtOutflowPoint =
         SumFun(OwnContribution, UpstreamOf({GaugeCell}, NumCells))
    /\ \A source, sink \in Cells :
         TwoCellNetwork(source, sink) =>
           /\ dyn.discharge[source] = WaterScale
           /\ dyn.discharge[sink] = 2 * WaterScale

\* the two-cell network of the example, the gauge at its sink
C6_Witness ==
  /\ Stepped
  /\ \E source, sink \in Cells :
       TwoCellNetwork(source, sink) /\ GaugeCell = sink

\* a gauge below a confluence of two cells with runoff, cell area 2
C6_WitnessConfluence ==
  /\ Stepped
  /\ cellArea = 2
  /\ Cardinality(Inflows(GaugeCell)) = 2
  /\ \A c \in Cells : dyn.runoffGenerated[c] > 0

\* the parameters of the run of the k-th candidate
RunMeltRate(k) == IF calibrate_melt_rate THEN my_range[k] ELSE DefaultMeltRate
RunLapseRate(k) == IF calibrate_melt_rate THEN DefaultLapseRate ELSE my_range[k]

\* a run is under way
Running == pc \in {"initial", "dynamic", "aggregate"}

\* the records so far are those of the candidates so far, in their order
C7_Records ==
  /\ pos <= Len(my_range)
  /\ Len(result) = (IF Running \/ pc = "aborted" THEN pos - 1 ELSE pos)
  /\ pc = "done" => Len(result) = Len(my_range)
  /\ pc # "error"
  /\ Running => /\ meltRate = RunMeltRate(pos)
                /\ temperatureLapseRate = RunLapseRate(pos)
  /\ \A k \in 1..Len(result) :
       /\ result[k][1] = RunMeltRate(k)
       /\ result[k][2] = RunLapseRate(k)

\* candidates are taken one by one, and a record is only ever appended, with
\* the parameter values of the run that ends
C7_Step ==
  /\ pos' = pos \/ (pos' = pos + 1 /\ pc = "loop" /\ pc' = "initial")
  /\ \/ result' = result
     \/ /\ pc = "aggregate"
        /\ Len(result') = Len(result) + 1
        /\ SubSeq(result', 1, Len(result)) = result
        /\ result'[Len(result')][1] = meltRate
        /\ result'[Len(result')][2] = temperatureLapseRate
  /\ pc' = "done" => pos = Len(my_range)

\* C7: the loop evaluates every candidate exactly once, in the order given,
\* without early termination; after the k-th candidate the result holds k
\* records, the i-th with the parameter values of the i-th candidate's run,
\* and records are never changed or removed.
C7_ExhaustiveOrderedSweep == []C7_Records /\ [][C7_Step]_vars

\* the end of a sweep over a range of MaxCandidates lapse rates
C7_Witness ==
  /\ pc = "done"
  /\ ~calibrate_melt_rate
  /\ Len(result) = MaxCandidates
  /\ result[1][2] # result[2][2]

RECURSIVE StandaloneRun(_, _, _)
\* snow map and difference array after t time steps of a run of its own
StandaloneRun(rate, lapse, t) ==
  IF t = 0
  THEN [snow |-> [c \in Cells |-> 0], simulation |-> Zeros(NR_OF_TIME_STEPS)]
  ELSE LET before == StandaloneRun(rate, lapse, t - 1)
           m == DynamicMaps(before.snow, TemperatureCorrection(dem, lapse),
                            Lddcreate(dem), out, rate, t)
       IN  [snow |-> m.snow,
            simulation |-> [before.simulation EXCEPT ![t - 1] = m.outflow_diff]]

\* the mean absolute difference of a run of its own
StandaloneObjective(rate, lapse) ==
  MeanAbs(StandaloneRun(rate, lapse, NR_OF_TIME_STEPS).simulation, NR_OF_TIME_STEPS)

\* C8: every run starts with no snow in any cell and a new all-zero
\* difference array of length N, whatever ran before, so the objective
\* recorded for a candidate is that of a run of its own with its parameters.
C8_RunIndependence ==
  /\ (pc = "dynamic" /\ timeStep = 0) =>
       /\ snow = [c \in Cells |-> 0]
       /\ simulation = Zeros(NR_OF_TIME_STEPS)
       /\ modelled = <<>>
  /\ \A k \in 1..Len(result) :
       result[k][3] = Rint(StandaloneObjective(RunMeltRate(k), RunLapseRate(k)))

\* a run starts after a run that left snow and differences behind
C8_Witness ==
  /\ pc = "dynamic"
  /\ timeStep = 0
  /\ Len(result) >= 1
  /\ snowTotals[Len(snowTotals)] > 0
  /\ result[Len(result)][3] > 0

RECURSIVE SumAbsDifference(_)
\* sum of |observed - modelled| over the time steps 1..t
SumAbsDifference(t) ==
  IF t = 0 THEN 0
  ELSE Abs(observedTss[t] - modelled[t]) + SumAbsDifference(t - 1)

\* the objective of the last run has been computed and no run has begun since
Scored == pc \in {"loop", "done"} /\ pos >= 1

\* C9: the objective of a candidate is the sum of |observed - modelled| over
\* the N days of its run, divided by N; for a range of one value it is the
\* mean absolute difference of a standalone run with the same parameters.
C9_Objective ==
  Scored =>
    /\ diff.den = NR_OF_TIME_STEPS
    /\ diff.num = SumAbsDifference(NR_OF_TIME_STEPS)
    /\ result[Len(result)][3] = Rint(diff)
    /\ Len(my_range) = 1 => diff = StandaloneObjective(meltRate, temperatureLapseRate)

\* a scored range of one value whose run had differences of both signs
C9_Witness ==
  /\ pc = "done"
  /\ Len(my_range) = 1
  /\ \E a, b \in 0..(NR_OF_TIME_STEPS - 1) : simulation[a] < 0 /\ simulation[b] > 0

\* the difference array during a run: index d - 1 holds the difference of
\* day d for the days done, every other index is untouched
C10_Array ==
  /\ pc # "error"
  /\ timeStep <= NR_OF_TIME_STEPS
  /\ pc = "aggregate" => timeStep = NR_OF_TIME_STEPS
  /\ pc \in {"dynamic", "aggregate"} =>
       /\ DOMAIN simulation = 0..(NR_OF_TIME_STEPS - 1)
       /\ Len(modelled) = timeStep
       /\ \A k \in 0..(NR_OF_TIME_STEPS - 1) :
            IF k < timeStep
            THEN writes[k] = 1 /\ simulation[k] = observedTss[k + 1] - modelled[k + 1]
            ELSE writes[k] = 0 /\ simulation[k] = 0

\* initial() comes first and once, then the days one by one, then the end
C10_Step ==
  /\ pc = "initial" => pc' = "dynamic" /\ timeStep' = 0
  /\ pc = "dynamic" =>
       /\ timeStep' = timeStep + 1
       /\ \/ pc' = (IF timeStep' = NR_OF_TIME_STEPS THEN "aggregate" ELSE "dynamic")
          \/ pc' = "aborted" /\ simulation' = simulation
  /\ pc \notin {"initial", "dynamic"} => timeStep' = timeStep /\ pc' # "dynamic"

\* C10: a run does initial() once and then the step of day 1, 2, .., N, each
\* once and in this order, and then ends; the step of day d stores observed
\* minus modelled discharge at index d - 1 of an array of length N, so that
\* at the end every index 0..N-1 was written once and no other index ever.
C10_DaySequencing == []C10_Array /\ [][C10_Step]_vars

\* the end of a run whose last day left a difference at index N - 1
C10_Witness ==
  /\ pc = "aggregate"
  /\ simulation[NR_OF_TIME_STEPS - 1] # 0
  /\ simulation[0] # simulation[NR_OF_TIME_STEPS - 1]


\* the parameters of the run under way are the candidate and the default
C11_Parameters ==
  Running =>
    IF calibrate_melt_rate
    THEN meltRate = my_range[pos] /\ temperatureLapseRate = DefaultLapseRate
    ELSE temperatureLapseRate = my_range[pos] /\ meltRate = DefaultMeltRate

\* from the construction of a run to the appending of its record the two
\* parameters stay as they are
C11_Step == Running => meltRate' = meltRate /\ temperatureLapseRate' = temperatureLapseRate

\* C11: when the melt rate is calibrated the run's meltRate is the candidate
\* and its temperatureLapseRate the default 0.005, otherwise the run's
\* temperatureLapseRate is the candidate and its meltRate the default 0.01;
\* one parameter is set from the candidate, the other from its default, and
\* neither changes between the construction of the run and its record.
C11_ParameterSet == []C11_Parameters /\ [][C11_Step]_vars

\* the end of the second run of a sweep over melt rates
C11_Witness ==
  /\ pc = "aggregate"
  /\ calibrate_melt_rate
  /\ pos = 2
  /\ meltRate # DefaultMeltRate
  /\ temperatureLapseRate = DefaultLapseRate

\* the correction is the one initial() computed, and the maps of the last
\* dynamic() used it
C12_Correction ==
  /\ pc \in {"dynamic", "aggregate"} =>
       /\ \A c \in Cells :
            temperatureCorrection[c] * CorrectionUnit =
              (dem[c] - elevationMeteoStation) * temperatureLapseRate
       /\ observationLocation = out
  /\ Stepped =>
       \A c \in Cells :
         dyn.temperature[c] = tempTss[dyn.timeStep] - temperatureCorrection[c]

\* no dynamic() changes the correction, the drainage network or the gauge
C12_Step ==
  pc = "dynamic" =>
    /\ temperatureCorrection' = temperatureCorrection
    /\ ldd' = ldd
    /\ observationLocation' = observationLocation

\* C12: the temperature correction of a cell is computed once, by initial(),
\* as (elevation - station elevation) * lapse rate; no daily step changes it,
\* the drainage network or the gauge location; every day the corrected
\* temperature is the observed temperature minus that correction.
C12_CorrectionFixed == []C12_Correction /\ [][C12_Step]_vars

\* the last day of a run on a map with different corrections, none of them 0
\* in the first cell
C12_Witness ==
  /\ pc = "aggregate"
  /\ temperatureCorrection[1] # 0
  /\ temperatureCorrection[1] # temperatureCorrection[2]
  /\ dyn.temperature[1] # dyn.temperature[2]

\* C13: with an empty candidate range the sweep ends in an error outcome, not
\* in a normal completion with an empty result sequence.
C13_EmptyRangeIsError == Len(my_range) = 0 => pc # "done"

\* some day of the run has no precipitation, temperature or observed discharge
ForcingIncomplete ==
  \E d \in Days :
    ~Available(precipTss, d) \/ ~Available(tempTss, d) \/ ~Available(observedTss, d)

\* the first such day
FirstMissingDay ==
  CHOOSE d \in Days :
    /\ ~Available(precipTss, d) \/ ~Available(tempTss, d) \/ ~Available(observedTss, d)
    /\ \A e \in 1..(d - 1) :
         Available(precipTss, e) /\ Available(tempTss, e) /\ Available(observedTss, e)

\* with incomplete forcing no run finishes, no objective is computed or
\* printed, no record is appended, nothing is plotted from a run, and the run
\* stops on the first day without a value
C14_NoPartialResult ==
  ForcingIncomplete =>
    /\ pc # "aggregate"
    /\ diff = [num |-> 0, den |-> 1]
    /\ result = <<>>
    /\ printed = <<>>
    /\ plotted = <<>>
    /\ pos <= 1
    /\ timeStep <= FirstMissingDay
    /\ pc = "aborted" => timeStep = FirstMissingDay /\ pos = 1
    /\ pc = "dynamic" => timeStep < FirstMissingDay
    /\ pc = "done" => Len(my_range) = 0

\* with complete forcing no run is aborted
C14_NoSpuriousAbort == ~ForcingIncomplete => pc # "aborted"

\* nothing follows an aborted run: no retry, no further candidate
C14_NoRetry == pc # "aborted"

\* C14: if on some day d <= N of a run a precipitation, temperature or
\* observed-discharge value is missing, the run never finishes, no objective
\* is computed from its partly filled difference series, no record of the
\* candidate is appended to the result, and the run is not retried.
C14_ForcingErrorAborts ==
  [](C14_NoPartialResult /\ C14_NoSpuriousAbort) /\ [][C14_NoRetry]_vars

\* a run aborted on its last day for want of an observed discharge: the
\* earlier differences are in the array, the modelled discharge of the day
\* was sampled, and there is no record
C14_Witness ==
  /\ pc = "aborted"
  /\ observedTss = ObservedCut
  /\ timeStep = NR_OF_TIME_STEPS
  /\ writes[0] = 1
  /\ Len(modelled) = timeStep
  /\ Len(diffOut) = timeStep - 1
  /\ result = <<>>

\* C15: when a run of the sweep fails fatally, the candidate value of the
\* failing run has been reported.
C15_FailingCandidateReported ==
  pc = "aborted" =>
    \E k \in 1..Len(printed) : printed[k][my_values + 1] = Round4(my_range[pos])

\* a cell that points to itself
IsSink(c) == ldd[c] = c

RECURSIVE Downstream(_, _)
\* the cell reached from c by n downstream steps (a sink stays where it is)
Downstream(c, n) == IF n = 0 THEN c ELSE Downstream(ldd[c], n - 1)

Sinks == {c \in Cells : IsSink(c)}

\* C17: every day the accumulated discharges of the sink cells add up to the
\* runoff times area of all cells, and when no cell has a negative runoff
\* the accumulated discharge of the downstream neighbour of a cell is at
\* least that of the cell.
C17_RoutingConservesWater ==
  Stepped =>
    /\ SumFun(dyn.discharge, Sinks) = SumFun(OwnContribution, Cells)
    /\ (\A c \in Cells : dyn.runoffGenerated[c] >= 0) =>
         \A c \in Cells : dyn.discharge[ldd[c]] >= dyn.discharge[c]

\* a day with runoff in every cell on a network with a path of two steps
C17_Witness ==
  /\ Stepped
  /\ cellArea = 2
  /\ \A c \in Cells : dyn.runoffGenerated[c] > 0
  /\ \E c \in Cells : ~IsSink(c) /\ ~IsSink(ldd[c])
  /\ \E c \in Cells : dyn.discharge[ldd[c]] > dyn.discharge[c]

\* no precipitation value is negative and the melt rate is not negative
Plausible ==
  /\ \A d \in DOMAIN precipTss : precipTss[d] >= 0
  /\ meltRate >= 0

\* a dynamic() that got as far as the modelled discharge of its day
C18_Day == pc = "dynamic" /\ dyn'.timeStep = timeStep + 1

C18_Step ==
  (Plausible /\ C18_Day) =>
    /\ \A c \in Cells :
         /\ 0 <= dyn'.actualMelt[c]
         /\ dyn'.actualMelt[c] <= dyn'.potentialMelt[c]
         /\ dyn'.actualMelt[c] <= snow[c] + dyn'.snowFall[c]
         /\ dyn'.runoffGenerated[c] >= 0
         /\ dyn'.freezing[c] => snow'[c] >= snow[c]
         /\ ~dyn'.freezing[c] => snow'[c] <= snow[c]
    /\ dyn'.runoffAtOutflowPoint >= 0
    /\ modelled'[Len(modelled')] >= 0

\* C18: with no negative precipitation and a melt rate >= 0, on every day
\* of every run each cell has 0 <= actualMelt <= potentialMelt and
\* actualMelt <= the snow before melting, its runoff is >= 0, its snow does
\* not decrease on a frozen day and does not increase on a melting day, and
\* the modelled discharge at the gauge is >= 0.
C18_PlausibleInputs == [][C18_Step]_vars

\* a melting day on which the snow of a cell, not its potential melt, limits
\* the melt, and another cell still has snow left
C18_Witness ==
  /\ Stepped
  /\ Plausible
  /\ \E c \in Cells :
       /\ ~dyn.freezing[c]
       /\ 0 < dyn.actualMelt[c]
       /\ dyn.actualMelt[c] < dyn.potentialMelt[c]
  /\ \E c \in Cells : snow[c] > 0
  /\ dyn.runoffAtOutflowPoint > 0

=============================================================================
